---- MODULE Spec2Model ----
(***************************************************************************)
(* IFCManager / IFC-OpenSeesPy linker: the IFCParser extraction passes and *)
(* the OpenSeesConverter model assembly, as one state machine.             *)
(*                                                                         *)
(* Units.  Coordinates and extrusion depths are integers counted in        *)
(* quarters of the node tolerance (1 unit = 0.00025 m, so 1e-3 = 4 units). *)
(* Section dimensions are counted in decimetres; areas in dm^2; moments    *)
(* of inertia are held as twelfths of dm^4 (the code divides by 12).       *)
(* A number that may carry a multiple of pi is a record [q, pi] standing   *)
(* for q + pi*3.14159...                                                    *)
(* A Python float is a record [k, v]: k = "fin" with the value v, or       *)
(* k = "inf" / "nan" for the non-finite floats.                            *)
(* A Python dict is a record [k, v] of two parallel sequences, the keys in *)
(* insertion order and their values.  Python's None is the record None.    *)
(***************************************************************************)
EXTENDS Integers, Sequences, FiniteSets, TLC

VARIABLES
    disk,                 \* the entities of the IFC file at ifc_file_path
    ifc_file_path,        \* IFCParser.ifc_file_path ("" stands for None)
    ifc_model,            \* IFCParser.ifc_model: None, or the handle of the opened file
    structural_elements,  \* IFCParser.structural_elements, the dict the converter holds too
    nodes,                \* OpenSeesConverter.nodes
    elements,             \* OpenSeesConverter.elements
    default_section,      \* OpenSeesConverter.default_section (set by _define_materials)
    materials_defined,    \* OpenSeesConverter.materials_defined
    model_created,        \* OpenSeesConverter.model_created
    ops,                  \* the solver's ambient model: nodes, elements, fixed nodes, loads
    ret,                  \* the last call and what it returned (see Returned)
    last_load,            \* what the latest load_ifc_file returned ("not called" before any)
    last_create,          \* what the latest create_model returned ("not called" before any)
    manager_elements,     \* IFCManager.structural_elements: its own dict, or the parser's
    analysis_results,     \* the results the latest run_analysis handed back
    converter             \* IFCtoOpenSeesConverter.converter: None, or the dict it was built on

vars == <<disk, ifc_file_path, ifc_model, structural_elements, nodes, elements,
          default_section, materials_defined, model_created, ops, ret, last_load,
          last_create,
          manager_elements, analysis_results, converter>>

parserVars == <<ifc_file_path, ifc_model, structural_elements>>
converterVars == <<nodes, elements, default_section, materials_defined, model_created, ops>>
facadeVars == <<manager_elements, analysis_results, converter>>

-----------------------------------------------------------------------------
(* Python values *)

None == [none |-> TRUE]

EmptyDict == [k |-> <<>>, v |-> <<>>]

DictLen(d) == Len(d.k)

DictHas(d, key) == \E i \in 1..Len(d.k) : d.k[i] = key

DictIndex(d, key) == CHOOSE i \in 1..Len(d.k) : d.k[i] = key

DictGet(d, key) == d.v[DictIndex(d, key)]

\* d[key] = val: an existing key keeps its place, a new key is appended
DictPut(d, key, val) ==
    IF DictHas(d, key)
    THEN [d EXCEPT !.v[DictIndex(d, key)] = val]
    ELSE [k |-> Append(d.k, key), v |-> Append(d.v, val)]

\* getattr(obj, name, default) and dict.get(name, default)
GetAttr(obj, name, default) == IF name \in DOMAIN obj THEN obj[name] ELSE default

Fin(n) == [k |-> "fin", v |-> n]
Inf == [k |-> "inf", v |-> 0]
NaN == [k |-> "nan", v |-> 0]

IsFin(a) == a.k = "fin"

\* a + b on floats (the infinity here is always positive)
FAdd(a, b) ==
    IF a.k = "nan" \/ b.k = "nan" THEN NaN
    ELSE IF a.k = "inf" \/ b.k = "inf" THEN Inf
    ELSE Fin(a.v + b.v)

\* a * b on floats, b >= 0 or infinite
FMul(a, b) ==
    IF a.k = "nan" \/ b.k = "nan" THEN NaN
    ELSE IF a.k = "fin" /\ b.k = "fin" THEN Fin(a.v * b.v)
    ELSE IF (a.k = "fin" /\ a.v = 0) \/ (b.k = "fin" /\ b.v = 0) THEN NaN
    ELSE Inf

\* a < b on floats
FLt(a, b) ==
    IF a.k = "nan" \/ b.k = "nan" THEN FALSE
    ELSE IF a.k = "inf" THEN FALSE
    ELSE IF b.k = "inf" THEN TRUE
    ELSE a.v < b.v

Abs(n) == IF n < 0 THEN -n ELSE n

\* abs(a - b) < eps on floats: inf - inf is nan, and nothing compares below nan
FAbsDiffLt(a, b, eps) == IsFin(a) /\ IsFin(b) /\ Abs(a.v - b.v) < eps

Num(n) == [q |-> n, pi |-> 0]
PiTimes(n) == [q |-> 0, pi |-> n]
NumScale(a, n) == [q |-> a.q * n, pi |-> a.pi * n]


-----------------------------------------------------------------------------
(* The building-model file: what ifcopenshell hands back for each entity *)

\* entity.is_a(name): the class itself or one of its schema subtypes
IsA(cls, name) ==
    \/ cls = name
    \/ cls = "IfcBeamStandardCase" /\ name = "IfcBeam"
    \/ cls = "IfcColumnStandardCase" /\ name = "IfcColumn"
    \/ cls = "IfcWallStandardCase" /\ name = "IfcWall"

\* ifc_model.by_type(name): the entities of that class, in file order
ByType(model, name) == SelectSeq(model.entities, LAMBDA e : IsA(e.is_a, name))

\* ifc_model.by_guid(guid)
ByGuid(model, guid) ==
    model.entities[CHOOSE i \in 1..Len(model.entities) : model.entities[i].GlobalId = guid]

\* what an opened handle reads: the entities and material catalogue of the file
Opened(file) == [opened |-> file]

-----------------------------------------------------------------------------
(* IFCParser._extract_material *)

Seq2Set(s) == {s[i] : i \in 1..Len(s)}

\* the statements of one association; ok = FALSE when a statement raised
\* (a None where an entity is expected has no is_a and no Name)
AssocEntries(rel) ==
    IF rel.is_a # "IfcRelAssociatesMaterial" THEN [ok |-> TRUE, entries |-> <<>>]
    ELSE LET sel == rel.RelatingMaterial IN
         IF sel = None THEN [ok |-> FALSE, entries |-> <<>>]
         ELSE IF sel.is_a = "IfcMaterial"
         THEN [ok |-> TRUE,
               entries |-> << [name |-> sel.Name, type |-> "material",
                               properties |-> EmptyDict] >>]
         ELSE IF sel.is_a = "IfcMaterialList"
         THEN [ok |-> \A i \in 1..Len(sel.Materials) : sel.Materials[i] # None,
               entries |-> [i \in 1..Len(sel.Materials) |->
                               IF sel.Materials[i] = None THEN None
                               ELSE [name |-> sel.Materials[i].Name, type |-> "material",
                                     properties |-> EmptyDict]]]
         ELSE IF sel.is_a = "IfcMaterialLayerSetUsage"
         THEN LET layers == sel.ForLayerSet.MaterialLayers IN
              [ok |-> \A i \in 1..Len(layers) : layers[i].Material # None,
               entries |-> [i \in 1..Len(layers) |->
                               IF layers[i].Material = None THEN None
                               ELSE [name |-> layers[i].Material.Name, type |-> "layer",
                                     thickness |-> layers[i].LayerThickness,
                                     properties |-> EmptyDict]]]
         ELSE IF sel.is_a = "IfcMaterialProfileSetUsage"
         THEN LET profs == sel.ForProfileSet.MaterialProfiles IN
              [ok |-> \A i \in 1..Len(profs) : profs[i].Material # None,
               entries |-> [i \in 1..Len(profs) |->
                               IF profs[i].Material = None THEN None
                               ELSE [name |-> profs[i].Material.Name, type |-> "profile",
                                     \* a missing profile or name gives None, held as ""
                                     profile |-> IF profs[i].Profile # None
                                                    /\ "ProfileName" \in DOMAIN profs[i].Profile
                                                 THEN profs[i].Profile.ProfileName
                                                 ELSE "",
                                     properties |-> EmptyDict]]]
         ELSE [ok |-> TRUE, entries |-> <<>>]

RECURSIVE PutEntries(_, _)
\* materials[name] = entry, for the entries in order
PutEntries(materials, entries) ==
    IF entries = <<>> THEN materials
    ELSE PutEntries(DictPut(materials, Head(entries).name, Head(entries)), Tail(entries))

RECURSIVE CollectMaterials(_, _)
\* the loop over element.HasAssociations; the first statement that raises ends it
CollectMaterials(rels, materials) ==
    IF rels = <<>> THEN [ok |-> TRUE, materials |-> materials]
    ELSE LET got == AssocEntries(Head(rels)) IN
         IF ~got.ok THEN [ok |-> FALSE, materials |-> materials]
         ELSE CollectMaterials(Tail(rels), PutEntries(materials, got.entries))

\* the property sets of the catalogue's materials of that name, merged into the entry
WithCatalogProperties(model, materials) ==
    [materials EXCEPT !.v =
        [i \in 1..Len(materials.v) |->
            [materials.v[i] EXCEPT !.properties =
                IF materials.k[i] \in DOMAIN model.material_psets
                THEN model.material_psets[materials.k[i]]
                ELSE EmptyDict]]]

ExtractMaterial(model, element) ==
    LET got == CollectMaterials(element.HasAssociations, EmptyDict) IN
    IF ~got.ok THEN None
    ELSE IF DictLen(got.materials) = 0 THEN None
    ELSE WithCatalogProperties(model, got.materials)

-----------------------------------------------------------------------------
(* IFCParser._extract_profile *)

ProfileData(item) ==
    LET profile == item.SweptArea
        generic == [type |-> profile.is_a,
                    depth |-> GetAttr(profile, "Depth", 0),
                    width |-> GetAttr(profile, "Width", 0),
                    area |-> GetAttr(profile, "Area", 0)]
        shaped ==
            IF profile.is_a = "IfcRectangleProfileDef"
            THEN [shape |-> "rectangular", height |-> profile.YDim, width |-> profile.XDim]
            ELSE IF profile.is_a = "IfcCircleProfileDef"
            THEN [shape |-> "circular", radius |-> profile.Radius]
            ELSE IF profile.is_a = "IfcIShapeProfileDef"
            THEN [shape |-> "I-shape", height |-> profile.OverallDepth,
                  width |-> profile.OverallWidth,
                  web_thickness |-> profile.WebThickness,
                  flange_thickness |-> profile.FlangeThickness]
            ELSE <<>>
        extrusion == [extrusion_direction |-> item.ExtrudedDirection,
                      extrusion_depth |-> item.Depth]
    IN  extrusion @@ shaped @@ generic

\* the first extruded-area item of a swept-solid representation
ExtractProfile(element) ==
    IF element.Representation = None THEN None
    ELSE LET reps == element.Representation.Representations
             hits == UNION {{<<i, j>> : j \in {n \in 1..Len(reps[i].Items) :
                                     /\ reps[i].RepresentationType = "SweptSolid"
                                     /\ reps[i].Items[n].is_a = "IfcExtrudedAreaSolid"}} :
                            i \in 1..Len(reps)}
         IN  IF hits = {} THEN None
             ELSE LET first == CHOOSE p \in hits :
                                  \A o \in hits : p[1] < o[1] \/ (p[1] = o[1] /\ p[2] <= o[2])
                  IN  ProfileData(reps[first[1]].Items[first[2]])

-----------------------------------------------------------------------------
(* IFCParser.extract_structural_elements *)

StructuralTypes ==
    <<"IfcBeam", "IfcColumn", "IfcSlab", "IfcWall", "IfcFooting", "IfcPile", "IfcMember">>

LinearTypes == {"IfcBeam", "IfcColumn", "IfcMember"}

ElementData(model, element, element_type) ==
    [id |-> element.GlobalId,
     \* a missing, None or empty Name all give '' (None is held as "")
     name |-> IF "Name" \in DOMAIN element THEN element.Name ELSE "",
     type |-> element.is_a,
     geometry |-> None,
     material |-> ExtractMaterial(model, element),
     profile |-> IF element_type \in LinearTypes THEN ExtractProfile(element) ELSE None,
     properties |-> element.psets]

RECURSIVE StoreElementsUntilFailure(_, _, _, _)
\* a variant of the inner loop in which a failed material lookup ends the batch
StoreElementsUntilFailure(model, element_type, found, selems) ==
    IF found = <<>> THEN selems
    ELSE IF Head(found).HasAssociations # <<>>
            /\ ExtractMaterial(model, Head(found)) = None
    THEN selems
    ELSE StoreElementsUntilFailure(model, element_type, Tail(found),
             DictPut(selems, Head(found).GlobalId,
                     ElementData(model, Head(found), element_type)))

RECURSIVE StoreElements(_, _, _, _)
\* the inner loop: one record per entity of the type, stored under its GlobalId
StoreElements(model, element_type, found, selems) ==
    IF found = <<>> THEN selems
    ELSE StoreElements(model, element_type, Tail(found),
             DictPut(selems, Head(found).GlobalId,
                     ElementData(model, Head(found), element_type)))

RECURSIVE ExtractTypes(_, _, _)
\* the outer loop over the structural types, in their listed order
ExtractTypes(model, types, selems) ==
    IF types = <<>> THEN selems
    ELSE ExtractTypes(model, Tail(types),
             StoreElements(model, Head(types), ByType(model, Head(types)), selems))


-----------------------------------------------------------------------------
(* IFCParser.extract_geometry *)

\* the flat array cut into triples; reading past its end raises
Triples(flat) == [i \in 1..(Len(flat) \div 3) |-> <<flat[3*i - 2], flat[3*i - 1], flat[3*i]>>]

\* math.sqrt on the sums of squares the model's directions give
Sqrt(n) == CHOOSE r \in 0..n : r * r = n

\* the axis line of a linear member: placement origin, and origin + unit direction * depth.
\* placement.rot is the rotation part matrix[i][j], placement.loc the column matrix[i][3].
AxisLine(placement, profile) ==
    LET dir == profile.extrusion_direction
        rot == placement.rot
        direction == [i \in 1..3 |-> rot[i][1]*dir[1] + rot[i][2]*dir[2] + rot[i][3]*dir[3]]
        length == Sqrt(direction[1]*direction[1] + direction[2]*direction[2]
                       + direction[3]*direction[3])
        unit == IF length > 0 THEN [i \in 1..3 |-> direction[i] \div length] ELSE direction
        location == placement.loc
        endpoint == [i \in 1..3 |-> FAdd(location[i],
                                         FMul(Fin(unit[i]), profile.extrusion_depth))]
    IN  [start |-> location, end |-> endpoint]

\* one pass of the loop body: the element's record after it
WithGeometry(model, element_id, element_data) ==
    LET element == ByGuid(model, element_id) IN
    IF ~element.shape_ok THEN element_data            \* create_shape raised RuntimeError
    ELSE IF Len(element.verts) % 3 # 0 \/ Len(element.faces) % 3 # 0
    THEN element_data                                  \* IndexError, caught and skipped
    ELSE
    LET vertices == Triples(element.verts)
        triangles == Triples(element.faces)
        mesh == [type |-> "mesh", vertices |-> vertices, triangles |-> triangles]
    IN  IF element_data.type \in LinearTypes
        THEN IF element_data.profile # None
             THEN IF "extrusion_direction" \in DOMAIN element_data.profile
                  THEN LET axis == AxisLine(element.ObjectPlacement, element_data.profile) IN
                       [element_data EXCEPT !.geometry =
                           [type |-> "line", start |-> axis.start, end |-> axis.end,
                            vertices |-> vertices, triangles |-> triangles]]
                  ELSE [element_data EXCEPT !.geometry = mesh]
             ELSE [element_data EXCEPT !.geometry = mesh]
        ELSE IF element_data.type \in {"IfcSlab", "IfcWall"}
        THEN [element_data EXCEPT !.geometry = mesh]
        ELSE [element_data EXCEPT !.geometry = mesh]

GeometryPass(model, selems) ==
    [selems EXCEPT !.v = [i \in 1..Len(selems.v) |->
                             WithGeometry(model, selems.k[i], selems.v[i])]]

-----------------------------------------------------------------------------
(* The parser's operations *)

\* A call that returns self.structural_elements returns that very dict, not a copy:
\* it is held as SameDict and read through Value.
SameDict == [same_as |-> "structural_elements"]

Returned(op, value) == [op |-> op, value |-> value]

Value(r) == IF r.value = SameDict THEN structural_elements ELSE r.value

\* a call that ended in an exception the caller sees
Raised(op, exception) == [op |-> op, value |-> [raised |-> exception]]

\* a variant of load_ifc_file that keeps the handle of a path it could not read
LoadIfcFileKeepingHandle ==
    /\ \E outcome \in {"missing", "open_error", "opened"} :
          IF ifc_file_path = ""
          THEN /\ ifc_model' = ifc_model
               /\ ret' = Returned("load_ifc_file", FALSE)
               /\ last_load' = "False"
          ELSE IF outcome \in {"missing", "open_error"}
          THEN /\ ifc_model' = Opened(ifc_file_path)
               /\ ret' = Returned("load_ifc_file", FALSE)
               /\ last_load' = "False"
          ELSE /\ ifc_model' = Opened(ifc_file_path)
               /\ ret' = Returned("load_ifc_file", TRUE)
               /\ last_load' = "True"
    /\ UNCHANGED <<disk, ifc_file_path, structural_elements, last_create>>
    /\ UNCHANGED converterVars
    /\ UNCHANGED facadeVars

\* IFCParser.load_ifc_file.  Whether the file exists and opens is the environment's
\* choice at each call; by_type and the geometry settings work on an opened model.
LoadIfcFile ==
    /\ \E outcome \in {"missing", "open_error", "opened"} :
          IF ifc_file_path = ""
          THEN /\ ifc_model' = ifc_model
               /\ ret' = Returned("load_ifc_file", FALSE)
               /\ last_load' = "False"
          ELSE IF outcome = "missing"
          THEN /\ ifc_model' = ifc_model
               /\ ret' = Returned("load_ifc_file", FALSE)
               /\ last_load' = "False"
          ELSE IF outcome = "open_error"
          THEN /\ ifc_model' = ifc_model
               /\ ret' = Returned("load_ifc_file", FALSE)
               /\ last_load' = "False"
          ELSE /\ ifc_model' = Opened(ifc_file_path)
               /\ ret' = Returned("load_ifc_file", TRUE)
               /\ last_load' = "True"
    /\ UNCHANGED <<disk, ifc_file_path, structural_elements, last_create>>
    /\ UNCHANGED converterVars
    /\ UNCHANGED facadeVars

\* IFCParser.extract_structural_elements
ExtractStructuralElements ==
    /\ IF ifc_model = None
       THEN /\ structural_elements' = structural_elements
            /\ ret' = Returned("extract_structural_elements", EmptyDict)
       ELSE /\ structural_elements' = ExtractTypes(disk, StructuralTypes, structural_elements)
            /\ ret' = Returned("extract_structural_elements", SameDict)
    /\ UNCHANGED <<disk, ifc_file_path, ifc_model, last_load, last_create>>
    /\ UNCHANGED converterVars
    /\ UNCHANGED facadeVars

\* IFCParser.extract_geometry
ExtractGeometry ==
    /\ IF ifc_model = None
       THEN /\ structural_elements' = structural_elements
            /\ ret' = Returned("extract_geometry", EmptyDict)
       ELSE /\ structural_elements' = GeometryPass(disk, structural_elements)
            /\ ret' = Returned("extract_geometry", SameDict)
    /\ UNCHANGED <<disk, ifc_file_path, ifc_model, last_load, last_create>>
    /\ UNCHANGED converterVars
    /\ UNCHANGED facadeVars

\* the four calculation methods: their bodies are "pass"
CalculateMeshVolume(vertices, triangles) == None

CalculateMeshArea(vertices, triangles) == None

CalculateLineArea(length, profile) == None

CalculateLineVolume(length, profile) == None

RECURSIVE CalculateFrom(_, _)
\* the loop of calculate_element_properties from the i-th element on; ok = FALSE when
\* geom['type'] raised TypeError on a geometry that is None.  The key 'geometry' is in
\* every record.  The length handed to the line methods is not used by them.
CalculateFrom(selems, i) ==
    IF i > DictLen(selems) THEN [ok |-> TRUE, selems |-> selems]
    ELSE LET element_data == selems.v[i]
             geom == element_data.geometry
         IN  IF geom = None THEN [ok |-> FALSE, selems |-> selems]
             ELSE IF geom.type = "esh"
             THEN CalculateFrom(
                      [selems EXCEPT !.v[i] =
                          [volume |-> CalculateMeshVolume(geom.vertices, geom.triangles),
                           area |-> CalculateMeshArea(geom.vertices, geom.triangles)] @@ @],
                      i + 1)
             ELSE IF geom.type = "line"
             THEN CalculateFrom(
                      [selems EXCEPT !.v[i] =
                          [volume |-> CalculateLineVolume(0, element_data.profile),
                           area |-> CalculateLineArea(0, element_data.profile)] @@ @],
                      i + 1)
             ELSE CalculateFrom(selems, i + 1)

\* IFCParser.calculate_element_properties
CalculateElementProperties ==
    /\ LET c == CalculateFrom(structural_elements, 1) IN
       /\ structural_elements' = c.selems
       /\ ret' = IF c.ok THEN Returned("calculate_element_properties", None)
                 ELSE Raised("calculate_element_properties", "TypeError")
    /\ UNCHANGED <<disk, ifc_file_path, ifc_model, last_load, last_create>>
    /\ UNCHANGED converterVars
    /\ UNCHANGED facadeVars


-----------------------------------------------------------------------------
(* OpenSeesConverter *)

\* 1e-3 of _find_node, in coordinate units
Eps == 4

\* 0.001 of _apply_boundary_conditions, in coordinate units
BaseEps == 4

\* density, kg/m^3
Density == 7850

\* g = 9.81, in hundredths
Gravity100 == 981

\* _find_node returns None on a miss; the caller only tests it for truth, as it would 0
NoNode == 0

\* the model after ops.wipe() and ops.model(...).  An element is held with its node
\* pair and section; E, G and the transformation tag are the same for every element.
WipedOps == [nodes |-> EmptyDict, elements |-> EmptyDict, fixed |-> {}, loads |-> EmptyDict]

\* default_section of _define_materials: A = 0.1, Iz = Iy = 0.001, J = 0.0001
DefaultSection == [A |-> Num(10), Iz |-> Num(120), Iy |-> Num(120), J |-> Num(12)]

\* tuple(coords) in defined_coords: a nan is equal to no other float object
CoordsDefined(defined_coords, coords) ==
    \E i \in 1..Len(defined_coords) :
        /\ defined_coords[i] = coords
        /\ \A a \in 1..3 : coords[a].k # "nan"

\* a variant of the loop body below that advances node_id for a repeated coordinate too
AddCoordsCountingRepeats(st, coords) ==
    IF CoordsDefined(st.defined_coords, coords) THEN [st EXCEPT !.node_id = @ + 1]
    ELSE [st EXCEPT !.ops.nodes = DictPut(@, st.node_id, coords),
                    !.defined_coords = Append(@, coords),
                    !.nodes = DictPut(@, st.node_id, coords),
                    !.node_id = @ + 1]

\* the body of "for coords in [start, end]"
AddCoords(st, coords) ==
    IF CoordsDefined(st.defined_coords, coords) THEN st
    ELSE [st EXCEPT !.ops.nodes = DictPut(@, st.node_id, coords),
                    !.defined_coords = Append(@, coords),
                    !.nodes = DictPut(@, st.node_id, coords),
                    !.node_id = @ + 1]

RECURSIVE CreateNodesFrom(_, _, _)
\* the loop of _create_nodes from the i-th element on; ok = FALSE when it raised
CreateNodesFrom(selems, i, st) ==
    IF i > DictLen(selems) THEN st
    ELSE LET geometry == selems.v[i].geometry IN
         IF geometry = None THEN [st EXCEPT !.ok = FALSE]     \* TypeError
         ELSE IF geometry.type = "line"
         THEN CreateNodesFrom(selems, i + 1,
                              AddCoords(AddCoords(st, geometry.start), geometry.end))
         ELSE CreateNodesFrom(selems, i + 1, st)

CreateNodes(selems, nodes0, ops0) ==
    CreateNodesFrom(selems, 1,
        [nodes |-> nodes0, ops |-> ops0, node_id |-> 1, defined_coords |-> <<>>, ok |-> TRUE])

\* a variant of the test below that also accepts a difference of exactly the tolerance
MatchesInclusive(node_coords, target) ==
    \A a \in 1..3 : FAbsDiffLt(node_coords[a], target[a], Eps + 1)

\* all(abs(a - b) < 1e-3 for a, b in zip(node_coords, target))
Matches(node_coords, target) ==
    \A a \in 1..3 : FAbsDiffLt(node_coords[a], target[a], Eps)

\* _find_node: the first node, in the dict's order, that matches
FindNode(nodes0, coords) ==
    LET hits == {i \in 1..DictLen(nodes0) : Matches(nodes0.v[i], coords)} IN
    IF hits = {} THEN NoNode
    ELSE nodes0.k[CHOOSE i \in hits : \A j \in hits : i <= j]

\* a variant of _get_section_properties with the two moments of inertia exchanged
GetSectionPropertiesSwapped(elem_data, section0) ==
    IF "profile" \in DOMAIN elem_data /\ elem_data.profile # None
    THEN LET profile == elem_data.profile IN
         IF "shape" \notin DOMAIN profile THEN [ok |-> FALSE, section |-> section0]
         ELSE IF profile.shape = "rectangular"
         THEN LET b == GetAttr(profile, "width", 3)
                  h == GetAttr(profile, "height", 5)
              IN  [ok |-> TRUE,
                   section |-> [A |-> Num(b * h),
                                Iz |-> Num(h * b * b * b),
                                Iy |-> Num(b * h * h * h),
                                J |-> Num(b * h * h * h + h * b * b * b)]]
         ELSE [ok |-> TRUE, section |-> section0]
    ELSE [ok |-> TRUE, section |-> section0]

\* _get_section_properties; ok = FALSE when profile['shape'] raised KeyError
GetSectionProperties(elem_data, section0) ==
    IF "profile" \in DOMAIN elem_data /\ elem_data.profile # None
    THEN LET profile == elem_data.profile IN
         IF "shape" \notin DOMAIN profile THEN [ok |-> FALSE, section |-> section0]
         ELSE IF profile.shape = "rectangular"
         THEN LET b == GetAttr(profile, "width", 3)
                  h == GetAttr(profile, "height", 5)
              IN  [ok |-> TRUE,
                   section |-> [A |-> Num(b * h),
                                Iz |-> Num(b * h * h * h),
                                Iy |-> Num(h * b * b * b),
                                J |-> Num(b * h * h * h + h * b * b * b)]]
         ELSE IF profile.shape = "circular"
         THEN LET r == GetAttr(profile, "radius", 2) IN
              [ok |-> TRUE,
               section |-> [A |-> PiTimes(r * r),
                            Iz |-> PiTimes(3 * r * r * r * r),
                            Iy |-> PiTimes(3 * r * r * r * r),
                            J |-> PiTimes(6 * r * r * r * r)]]
         ELSE [ok |-> TRUE, section |-> section0]
    ELSE [ok |-> TRUE, section |-> section0]

RECURSIVE CreateElementsFrom(_, _, _, _)
\* the loop of _create_elements from the i-th element on
CreateElementsFrom(selems, i, section0, st) ==
    IF i > DictLen(selems) THEN st
    ELSE LET elem_data == selems.v[i] IN
         IF elem_data.type \notin LinearTypes
         THEN CreateElementsFrom(selems, i + 1, section0, st)
         ELSE IF elem_data.geometry = None THEN [st EXCEPT !.ok = FALSE]   \* TypeError
         ELSE IF elem_data.geometry.type # "line"
         THEN CreateElementsFrom(selems, i + 1, section0, st)
         ELSE LET start_node == FindNode(st.nodes, elem_data.geometry.start)
                  end_node == FindNode(st.nodes, elem_data.geometry.end)
              IN  IF start_node = NoNode \/ end_node = NoNode
                  THEN CreateElementsFrom(selems, i + 1, section0, st)
                  ELSE LET got == GetSectionProperties(elem_data, section0) IN
                       IF ~got.ok THEN [st EXCEPT !.ok = FALSE]            \* KeyError
                       ELSE CreateElementsFrom(selems, i + 1, section0,
                              [st EXCEPT
                                 !.ops.elements = DictPut(@, st.element_id,
                                     [nodes |-> <<start_node, end_node>>,
                                      section |-> got.section]),
                                 !.elements = DictPut(@, st.element_id,
                                     [nodes |-> <<start_node, end_node>>,
                                      type |-> elem_data.type]),
                                 !.element_id = @ + 1])

CreateElements(selems, nodes0, elements0, section0, ops0) ==
    CreateElementsFrom(selems, 1, section0,
        [nodes |-> nodes0, elements |-> elements0, ops |-> ops0, element_id |-> 1,
         ok |-> TRUE])

RECURSIVE PyMin(_, _, _)
\* min(): the first value, replaced by each later value that compares below it
PyMin(values, i, current) ==
    IF i > Len(values) THEN current
    ELSE PyMin(values, i + 1, IF FLt(values[i], current) THEN values[i] ELSE current)

\* a variant of _apply_boundary_conditions that also fixes a node exactly the tolerance
\* above the lowest one
ApplyBoundaryConditionsInclusive(nodes0, ops0) ==
    IF DictLen(nodes0) = 0 THEN [ok |-> FALSE, ops |-> ops0]
    ELSE LET zs == [i \in 1..DictLen(nodes0) |-> nodes0.v[i][3]]
             min_z == PyMin(zs, 2, zs[1])
             base_nodes == {nodes0.k[i] : i \in {j \in 1..DictLen(nodes0) :
                                                    FAbsDiffLt(zs[j], min_z, BaseEps + 1)}}
         IN  [ok |-> TRUE, ops |-> [ops0 EXCEPT !.fixed = @ \cup base_nodes]]

\* _apply_boundary_conditions; ok = FALSE when min() of no nodes raised ValueError
ApplyBoundaryConditions(nodes0, ops0) ==
    IF DictLen(nodes0) = 0 THEN [ok |-> FALSE, ops |-> ops0]
    ELSE LET zs == [i \in 1..DictLen(nodes0) |-> nodes0.v[i][3]]
             min_z == PyMin(zs, 2, zs[1])
             base_nodes == {nodes0.k[i] : i \in {j \in 1..DictLen(nodes0) :
                                                    FAbsDiffLt(zs[j], min_z, BaseEps)}}
         IN  [ok |-> TRUE, ops |-> [ops0 EXCEPT !.fixed = @ \cup base_nodes]]

\* w = -A * density * g, in 1e-4 N/m
UniformLoad(A) == NumScale(A, -(Density * Gravity100))

RECURSIVE ApplyLoadsFrom(_, _, _, _)
\* the loop of _apply_loads over self.elements
ApplyLoadsFrom(elements0, i, section0, ops0) ==
    IF i > DictLen(elements0) THEN ops0
    ELSE LET A == GetSectionProperties(elements0.v[i], section0).section.A IN
         ApplyLoadsFrom(elements0, i + 1, section0,
             [ops0 EXCEPT !.loads = DictPut(@, elements0.k[i], UniformLoad(A))])

ApplyLoads(elements0, section0, ops0) == ApplyLoadsFrom(elements0, 1, section0, ops0)

\* a variant of create_model that writes each registered node pair back into the
\* structural element it was made from
CreateModelAnnotating ==
    /\ IF DictLen(structural_elements) = 0
       THEN /\ UNCHANGED converterVars
            /\ UNCHANGED structural_elements
            /\ ret' = Returned("create_model", FALSE)
       ELSE LET n == CreateNodes(structural_elements, nodes, WipedOps)
                e == CreateElements(structural_elements, n.nodes, elements,
                                    DefaultSection, n.ops)
                b == ApplyBoundaryConditions(n.nodes, e.ops)
                l == ApplyLoads(e.elements, DefaultSection, b.ops)
                done == n.ok /\ e.ok /\ b.ok
            IN  /\ default_section' = DefaultSection
                /\ materials_defined' = TRUE
                /\ nodes' = n.nodes
                /\ elements' = IF n.ok THEN e.elements ELSE elements
                /\ ops' = IF ~n.ok THEN n.ops
                          ELSE IF ~e.ok THEN e.ops
                          ELSE IF ~b.ok THEN b.ops
                          ELSE l
                /\ model_created' = (model_created \/ done)
                /\ structural_elements' =
                      IF ~done THEN structural_elements
                      ELSE [structural_elements EXCEPT !.v =
                              [i \in 1..DictLen(structural_elements) |->
                                  IF i <= DictLen(e.elements)
                                  THEN [nodes |-> e.elements.v[i].nodes]
                                           @@ structural_elements.v[i]
                                  ELSE structural_elements.v[i]]]
                /\ ret' = Returned("create_model", done)
    /\ last_create' = IF ret'.value THEN "True" ELSE "False"
    /\ UNCHANGED <<disk, ifc_file_path, ifc_model, last_load>>
    /\ UNCHANGED facadeVars

\* OpenSeesConverter.create_model, with whatever a raising step leaves behind
CreateModel ==
    /\ IF DictLen(structural_elements) = 0
       THEN /\ UNCHANGED converterVars
            /\ ret' = Returned("create_model", FALSE)
       ELSE LET n == CreateNodes(structural_elements, nodes, WipedOps)
                e == CreateElements(structural_elements, n.nodes, elements,
                                    DefaultSection, n.ops)
                b == ApplyBoundaryConditions(n.nodes, e.ops)
                l == ApplyLoads(e.elements, DefaultSection, b.ops)
                done == n.ok /\ e.ok /\ b.ok
            IN  /\ default_section' = DefaultSection
                /\ materials_defined' = TRUE
                /\ nodes' = n.nodes
                /\ elements' = IF n.ok THEN e.elements ELSE elements
                /\ ops' = IF ~n.ok THEN n.ops
                          ELSE IF ~e.ok THEN e.ops
                          ELSE IF ~b.ok THEN b.ops
                          ELSE l
                /\ model_created' = (model_created \/ done)
                /\ ret' = Returned("create_model", done)
    /\ last_create' = IF ret'.value THEN "True" ELSE "False"
    /\ UNCHANGED <<disk, parserVars, last_load>>
    /\ UNCHANGED facadeVars

\* the sag the solver reports for a free node, in coordinate units
Sags == {1, 2}

\* results['displacements'] for the nodes of self.nodes: nothing moves at a fixed node
Displacements(nodes0, fixed, sag) ==
    [k |-> nodes0.k,
     v |-> [i \in 1..DictLen(nodes0) |->
               [dx |-> 0, dy |-> 0, dz |-> IF nodes0.k[i] \in fixed THEN 0 ELSE -sag]]]

\* OpenSeesConverter.run_analysis; the results are kept as IFCtoOpenSeesConverter
\* keeps them.  Whether the solver raises, and what it computes, is the solver's choice.
RunAnalysis ==
    /\ IF ~model_created
       THEN analysis_results' = None
       ELSE \/ analysis_results' = None                       \* the solver raised
            \/ \E sag \in Sags :
                  analysis_results' = [displacements |-> Displacements(nodes, ops.fixed, sag)]
    /\ ret' = Returned("run_analysis", analysis_results')
    /\ UNCHANGED <<disk, parserVars, last_load, last_create, manager_elements, converter>>
    /\ UNCHANGED converterVars

-----------------------------------------------------------------------------
(* ModelVisualizer.visualize_results of the linker *)

\* scale_factor, by default
ScaleFactor == 10

\* results['displacements'].get(node, {'dx': 0, 'dy': 0, 'dz': 0})
DisplacementOf(results, node) ==
    IF DictHas(results.displacements, node) THEN DictGet(results.displacements, node)
    ELSE [dx |-> 0, dy |-> 0, dz |-> 0]

\* a point moved by its node's displacement times the scale factor
Displaced(point, disp, scale_factor) ==
    <<FAdd(point[1], Fin(disp.dx * scale_factor)),
      FAdd(point[2], Fin(disp.dy * scale_factor)),
      FAdd(point[3], Fin(disp.dz * scale_factor))>>

\* _plot_original_model: one grey line per element with line geometry
PlotOriginalModel(selems) ==
    [i \in 1..Len(SelectSeq(selems.v, LAMBDA e : e.geometry.type = "line")) |->
        LET geom == SelectSeq(selems.v, LAMBDA e : e.geometry.type = "line")[i].geometry
        IN  [start |-> geom.start, end |-> geom.end]]

\* _plot_displacements: one displaced line per element that has line geometry and
\* carries its node pair under 'nodes'
PlotDisplacements(selems, results, scale_factor) ==
    LET drawn == SelectSeq(selems.v,
                           LAMBDA e : e.geometry.type = "line" /\ "nodes" \in DOMAIN e)
    IN  [i \in 1..Len(drawn) |->
            LET elem_data == drawn[i]
                disp1 == DisplacementOf(results, elem_data.nodes[1])
                disp2 == DisplacementOf(results, elem_data.nodes[2])
            IN  [id |-> elem_data.id,
                 nodes |-> <<elem_data.nodes[1], elem_data.nodes[2]>>,
                 start |-> Displaced(elem_data.geometry.start, disp1, scale_factor),
                 end |-> Displaced(elem_data.geometry.end, disp2, scale_factor)]]

\* IFCtoOpenSeesConverter.visualize_results on the elements the converter was given;
\* geom.get on a geometry that is None raises AttributeError
VisualizeResults ==
    /\ ret' =
          IF analysis_results = None
          THEN Raised("visualize_results", "ValueError")
          ELSE IF \E i \in 1..DictLen(structural_elements) :
                      structural_elements.v[i].geometry = None
          THEN Raised("visualize_results", "AttributeError")
          ELSE IF DictLen(analysis_results.displacements) = 0
          THEN Raised("visualize_results", "ValueError")
          ELSE Returned("visualize_results",
                        [original |-> PlotOriginalModel(structural_elements),
                         displaced |-> PlotDisplacements(structural_elements,
                                                         analysis_results, ScaleFactor)])
    /\ UNCHANGED <<disk, parserVars, last_load, last_create>>
    /\ UNCHANGED converterVars
    /\ UNCHANGED facadeVars

-----------------------------------------------------------------------------
(* ModelVisualizer.visualize_ifc_model, of ifc_manager and of the linker *)

RECURSIVE Concat(_)
\* the traces of a figure, in the order they were added
Concat(seqs) == IF seqs = <<>> THEN <<>> ELSE Head(seqs) \o Concat(Tail(seqs))

\* triangles[np.all(triangles < len(vertices), axis=1)]
ValidTriangles(vertices, triangles) ==
    SelectSeq(triangles, LAMBDA t : \A a \in 1..3 : t[a] < Len(vertices))

\* the loop body of ifc_manager's visualizer: the traces one element adds.  geom.get on
\* a geometry that is None raises AttributeError, which the body catches.
ManagerTraces(elem_data, filter_types, show_axes) ==
    IF Len(filter_types) > 0 /\ elem_data.type \notin Seq2Set(filter_types) THEN <<>>
    ELSE LET geom == elem_data.geometry IN
         IF geom = None THEN <<>>
         ELSE IF geom.type = "mesh"
         THEN IF Len(geom.vertices) > 0 /\ Len(geom.triangles) > 0
                 /\ Len(ValidTriangles(geom.vertices, geom.triangles)) > 0
              THEN << [kind |-> "Mesh3d", id |-> elem_data.id, vertices |-> geom.vertices,
                       triangles |-> ValidTriangles(geom.vertices, geom.triangles)] >>
              ELSE <<>>
         ELSE IF geom.type = "line" /\ show_axes
         THEN << [kind |-> "Scatter3d", id |-> elem_data.id,
                  start |-> geom.start, end |-> geom.end] >>
         ELSE <<>>

\* ifc_manager's ModelVisualizer.visualize_ifc_model on the parser's elements; an empty
\* filter list counts as no filter
ManagerVisualizeIfcModel ==
    /\ \E filter_types \in {<<>>, <<"IfcSlab">>}, show_axes \in BOOLEAN :
          ret' = Returned("ifc_manager.visualize_ifc_model",
                          [traces |-> Concat([i \in 1..DictLen(structural_elements) |->
                                                ManagerTraces(structural_elements.v[i],
                                                              filter_types, show_axes)])])
    /\ UNCHANGED <<disk, parserVars, last_load, last_create>>
    /\ UNCHANGED converterVars
    /\ UNCHANGED facadeVars

\* the loop body of the linker's visualizer: every triangle goes to the trace
LinkerTraces(elem_data) ==
    LET geom == elem_data.geometry IN
    IF geom.type = "mesh" /\ Len(geom.vertices) > 0 /\ Len(geom.triangles) > 0
    THEN << [kind |-> "Mesh3d", id |-> elem_data.id, vertices |-> geom.vertices,
             triangles |-> geom.triangles] >>
    ELSE <<>>

\* the linker's ModelVisualizer.visualize_ifc_model on the parser's elements;
\* geom['type'] on a geometry that is None raises TypeError, which nothing catches
LinkerVisualizeIfcModel ==
    /\ ret' =
          IF \E i \in 1..DictLen(structural_elements) :
                 structural_elements.v[i].geometry = None
          THEN Raised("ifc_openseespy_linker.visualize_ifc_model", "TypeError")
          ELSE Returned("ifc_openseespy_linker.visualize_ifc_model",
                        [traces |-> Concat([i \in 1..DictLen(structural_elements) |->
                                              LinkerTraces(structural_elements.v[i])])])
    /\ UNCHANGED <<disk, parserVars, last_load, last_create>>
    /\ UNCHANGED converterVars
    /\ UNCHANGED facadeVars

-----------------------------------------------------------------------------
(* IFCtoOpenSeesConverter *)

\* IFCtoOpenSeesConverter.load_ifc without an argument: without a path there is no
\* parser (ValueError)
IFCtoOpenSeesConverterLoadIfc ==
    \/ /\ ifc_file_path = ""
       /\ ret' = Raised("IFCtoOpenSeesConverter.load_ifc", "ValueError")
       /\ UNCHANGED <<disk, parserVars, last_load, last_create>>
       /\ UNCHANGED converterVars
       /\ UNCHANGED facadeVars
    \/ /\ ifc_file_path # ""
       /\ LoadIfcFile

\* IFCtoOpenSeesConverter.extract_structural_elements: two parser passes, then a new
\* OpenSeesConverter on the dict the parser returned (its own dict, or a fresh empty one
\* when no model is loaded).  The solver's ambient model and analysis_results stay.
IFCtoOpenSeesConverterExtractStructuralElements ==
    /\ IF ifc_file_path = ""
       THEN /\ ret' = Raised("IFCtoOpenSeesConverter.extract_structural_elements",
                             "ValueError")
            /\ UNCHANGED <<structural_elements, converter, last_create>>
            /\ UNCHANGED converterVars
       ELSE /\ structural_elements' =
                  IF ifc_model = None THEN structural_elements
                  ELSE GeometryPass(disk, ExtractTypes(disk, StructuralTypes,
                                                       structural_elements))
            /\ converter' = [structural_elements |->
                                IF ifc_model = None THEN EmptyDict ELSE SameDict]
            /\ nodes' = EmptyDict
            /\ elements' = EmptyDict
            /\ materials_defined' = FALSE
            /\ model_created' = FALSE
            /\ last_create' = "not called"
            /\ UNCHANGED <<default_section, ops>>
            /\ ret' = Returned("IFCtoOpenSeesConverter.extract_structural_elements",
                               converter'.structural_elements)
    /\ UNCHANGED <<disk, ifc_file_path, ifc_model, last_load, manager_elements,
                   analysis_results>>

\* IFCtoOpenSeesConverter.create_opensees_model.  Without a converter the facade's own
\* structural_elements is still the empty dict of __init__ (ValueError); a converter
\* built on an empty dict returns False at once.
IFCtoOpenSeesConverterCreateOpenseesModel ==
    \/ /\ converter = None
       /\ ret' = Raised("IFCtoOpenSeesConverter.create_opensees_model", "ValueError")
       /\ UNCHANGED <<disk, parserVars, last_load, last_create>>
       /\ UNCHANGED converterVars
       /\ UNCHANGED facadeVars
    \/ /\ converter # None
       /\ converter.structural_elements = EmptyDict
       /\ ret' = Returned("create_model", FALSE)
       /\ last_create' = "False"
       /\ UNCHANGED <<disk, parserVars, last_load>>
       /\ UNCHANGED converterVars
       /\ UNCHANGED facadeVars
    \/ /\ converter # None
       /\ converter.structural_elements = SameDict
       /\ CreateModel

\* IFCtoOpenSeesConverter.run_analysis: ValueError without a converter, else whatever
\* the converter returns is stored
IFCtoOpenSeesConverterRunAnalysis ==
    \/ /\ converter = None
       /\ ret' = Raised("IFCtoOpenSeesConverter.run_analysis", "ValueError")
       /\ UNCHANGED <<disk, parserVars, last_load, last_create>>
       /\ UNCHANGED converterVars
       /\ UNCHANGED facadeVars
    \/ /\ converter # None
       /\ RunAnalysis

-----------------------------------------------------------------------------
(* IFCManager *)

\* the dict IFCManager.structural_elements refers to
ManagerElements ==
    IF manager_elements = SameDict THEN structural_elements ELSE manager_elements

\* IFCManager.extract_structural_elements: the three parser passes in a row.  Without a
\* path there is no parser (ValueError).  The dict is assigned before the later passes
\* run, so it stays assigned when calculate_element_properties raises.
IFCManagerExtractStructuralElements ==
    /\ IF ifc_file_path = ""
       THEN /\ ret' = Raised("IFCManager.extract_structural_elements", "ValueError")
            /\ UNCHANGED <<structural_elements, manager_elements>>
       ELSE LET extracted == IF ifc_model = None THEN structural_elements
                             ELSE ExtractTypes(disk, StructuralTypes, structural_elements)
                with_geometry == IF ifc_model = None THEN extracted
                                 ELSE GeometryPass(disk, extracted)
                c == CalculateFrom(with_geometry, 1)
            IN  /\ structural_elements' = c.selems
                /\ manager_elements' = IF ifc_model = None THEN EmptyDict ELSE SameDict
                /\ ret' = IF c.ok
                          THEN Returned("IFCManager.extract_structural_elements",
                                        manager_elements')
                          ELSE Raised("IFCManager.extract_structural_elements", "TypeError")
    /\ UNCHANGED <<disk, ifc_file_path, ifc_model, last_load, last_create, analysis_results,
                   converter>>
    /\ UNCHANGED converterVars

\* elem_data.get(key, 0); the number is held as a float record, so that it compares
\* with None as Python compares them (unequal)
GetOrZero(elem_data, key) == IF key \in DOMAIN elem_data THEN elem_data[key] ELSE Fin(0)

RECURSIVE CountFrom(_, _, _)
\* the loop of count_properties_by_material from the i-th element on.  The test looks
\* for the key 'aterial'.  Under it: .keys() on a material that is None raises
\* AttributeError, and adding a volume or area that is None raises TypeError.
CountFrom(selems, i, material_properties) ==
    IF i > DictLen(selems) THEN [ok |-> TRUE, value |-> material_properties]
    ELSE LET element_data == selems.v[i] IN
         IF "aterial" \notin DOMAIN element_data
         THEN CountFrom(selems, i + 1, material_properties)
         ELSE IF element_data.material = None
         THEN [ok |-> FALSE, value |-> "AttributeError"]
         ELSE LET material_name == element_data.material.k[1]
                  started == IF DictHas(material_properties, material_name)
                             THEN material_properties
                             ELSE DictPut(material_properties, material_name,
                                          [volume |-> Fin(0), area |-> Fin(0)])
                  sums == DictGet(started, material_name)
              IN  IF GetOrZero(element_data, "volume") = None
                     \/ GetOrZero(element_data, "area") = None
                  THEN [ok |-> FALSE, value |-> "TypeError"]
                  ELSE CountFrom(selems, i + 1,
                          DictPut(started, material_name,
                                  [volume |-> FAdd(sums.volume,
                                                   GetOrZero(element_data, "volume")),
                                   area |-> FAdd(sums.area,
                                                 GetOrZero(element_data, "area"))]))

\* IFCParser.count_properties_by_material
CountPropertiesByMaterial ==
    /\ LET c == CountFrom(structural_elements, 1, EmptyDict) IN
       ret' = IF c.ok THEN Returned("count_properties_by_material", c.value)
              ELSE Raised("count_properties_by_material", c.value)
    /\ UNCHANGED <<disk, parserVars, last_load, last_create>>
    /\ UNCHANGED converterVars
    /\ UNCHANGED facadeVars

\* the issues validate_model appends for one element, in order
IssuesOf(elem_id, elem_data) ==
    (IF "geometry" \notin DOMAIN elem_data
     THEN << [id |-> elem_id, issue |-> "has no geometry"] >> ELSE << >>)
    \o (IF "material" \notin DOMAIN elem_data \/ elem_data.material = None
              \/ elem_data.material = EmptyDict
        THEN << [id |-> elem_id, issue |-> "has no material"] >> ELSE << >>)
    \o (IF GetOrZero(elem_data, "volume") = Fin(0)
        THEN << [id |-> elem_id, issue |-> "has zero volume"] >> ELSE << >>)

RECURSIVE IssuesFrom(_, _)
IssuesFrom(selems, i) ==
    IF i > DictLen(selems) THEN << >>
    ELSE IssuesOf(selems.k[i], selems.v[i]) \o IssuesFrom(selems, i + 1)

\* IFCManager.validate_model
ValidateModel ==
    /\ ret' = Returned("validate_model",
                       IF DictLen(ManagerElements) = 0
                       THEN << [issue |-> "No structural elements found"] >>
                       ELSE IssuesFrom(ManagerElements, 1))
    /\ UNCHANGED <<disk, parserVars, last_load, last_create>>
    /\ UNCHANGED converterVars
    /\ UNCHANGED facadeVars

RECURSIVE Join(_)
\* ', '.join(names)
Join(names) ==
    IF names = << >> THEN ""
    ELSE IF Len(names) = 1 THEN names[1]
    ELSE names[1] \o ", " \o Join(Tail(names))

\* one row of the summary
SummaryRow(elem_id, elem_data) ==
    [ID |-> elem_id,
     Name |-> IF "name" \in DOMAIN elem_data THEN elem_data.name ELSE "",
     Type |-> IF "type" \in DOMAIN elem_data THEN elem_data.type ELSE "",
     Volume |-> GetOrZero(elem_data, "volume"),
     Area |-> GetOrZero(elem_data, "area"),
     Length |-> GetOrZero(elem_data, "length"),
     Material |-> IF "material" \in DOMAIN elem_data /\ elem_data.material # None
                     /\ elem_data.material # EmptyDict
                  THEN Join(elem_data.material.k) ELSE ""]

\* IFCManager.export_elements_summary: the rows, returned as text or written to the
\* file named; None when there are no elements
ExportElementsSummary ==
    /\ \E filename \in {"", "summary.csv"} :
          ret' = Returned("export_elements_summary",
                     IF DictLen(ManagerElements) = 0 THEN None
                     ELSE [filename |-> filename,
                           rows |-> [i \in 1..DictLen(ManagerElements) |->
                                        SummaryRow(ManagerElements.k[i],
                                                   ManagerElements.v[i])]])
    /\ UNCHANGED <<disk, parserVars, last_load, last_create>>
    /\ UNCHANGED converterVars
    /\ UNCHANGED facadeVars

-----------------------------------------------------------------------------
(* The files the model is run on *)

\* most entities of a file
MaxElems == 2

Identity == << <<1, 0, 0>>, <<0, 1, 0>>, <<0, 0, 1>> >>

AxisZ == <<0, 0, 1>>
AxisX == <<1, 0, 0>>

Rectangle == [is_a |-> "IfcRectangleProfileDef", XDim |-> 3, YDim |-> 5]
Circle == [is_a |-> "IfcCircleProfileDef", Radius |-> 2]
IShape == [is_a |-> "IfcIShapeProfileDef", OverallDepth |-> 4, OverallWidth |-> 2,
           WebThickness |-> 1, FlangeThickness |-> 1]
LShape == [is_a |-> "IfcLShapeProfileDef", Depth |-> 2, Width |-> 2, Thickness |-> 1]

\* a shape representation holding one solid extruded along dir
Extruded(profile, dir, depth) ==
    [Representations |->
        << [RepresentationType |-> "SweptSolid",
            Items |-> << [is_a |-> "IfcExtrudedAreaSolid", SweptArea |-> profile,
                          ExtrudedDirection |-> dir, Depth |-> depth] >>] >>]

\* a representation with no extruded solid in it
Brep ==
    [Representations |->
        << [RepresentationType |-> "Brep", Items |-> << [is_a |-> "IfcFacetedBrep"] >>] >>]

\* an entity placed at (0, 0, z), unrotated; the kernel's mesh is one triangle
Entity(cls, rep, z, shape_ok, assocs) ==
    [is_a |-> cls, Name |-> "", Representation |-> rep,
     ObjectPlacement |-> [rot |-> Identity, loc |-> <<Fin(0), Fin(0), Fin(z)>>],
     shape_ok |-> shape_ok,
     verts |-> <<0, 0, 0, 1, 0, 0, 0, 1, 0>>, faces |-> <<0, 1, 2>>,
     HasAssociations |-> assocs, psets |-> EmptyDict]

StartZs == {0, 2}
Depths == {0, 3, 4, 8}

\* beams of one rectangular section whose axis lines meet, nearly meet or stay apart
GeometryEntities ==
    {Entity("IfcBeam", Extruded(Rectangle, AxisZ, Fin(d)), z, TRUE, <<>>) :
        z \in StartZs, d \in Depths}
    \cup {Entity("IfcBeam", Extruded(Rectangle, AxisX, Fin(8)), z, TRUE, <<>>) : z \in StartZs}

\* members whose extrusion depth is not finite
NonFiniteEntities ==
    {Entity("IfcBeam", Extruded(Rectangle, a, Inf), 0, TRUE, <<>>) : a \in {AxisZ, AxisX}}

Material(name) == [is_a |-> "IfcMaterial", Name |-> name]

Associates(select) == [is_a |-> "IfcRelAssociatesMaterial", RelatingMaterial |-> select]

Layers(layers) ==
    [is_a |-> "IfcMaterialLayerSetUsage", ForLayerSet |-> [MaterialLayers |-> layers]]

\* the ways an element is tied to materials, well-formed and not
Associations ==
    { <<>>,
      << [is_a |-> "IfcRelAssociatesClassification"] >>,
      << Associates(Material("steel")) >>,
      << Associates([is_a |-> "IfcMaterialList",
                     Materials |-> <<Material("steel"), Material("concrete")>>]) >>,
      << Associates(Layers(<< [Material |-> Material("concrete"), LayerThickness |-> 2],
                              [Material |-> Material("concrete"), LayerThickness |-> 1] >>)) >>,
      << Associates([is_a |-> "IfcMaterialProfileSetUsage",
                     ForProfileSet |-> [MaterialProfiles |->
                        << [Material |-> Material("steel"),
                            Profile |-> [ProfileName |-> "IPE200"]] >>]]) >>,
      << Associates(None) >>,
      << Associates(Material("steel")),
         Associates(Layers(<< [Material |-> None, LayerThickness |-> 1] >>)) >> }

MaterialEntities ==
    {Entity("IfcBeam", Extruded(Rectangle, AxisZ, Fin(8)), 0, TRUE, a) : a \in Associations}
    \cup {Entity("IfcDoor", Brep, 0, TRUE, << Associates(Material("steel")) >>)}

\* two plain beams, along z and along x from the same origin
PlainBeams ==
    {Entity("IfcBeam", Extruded(Rectangle, a, Fin(8)), 0, TRUE, <<>>) : a \in {AxisZ, AxisX}}

\* the section kinds, a member without profile, a failed shape, a surface member
SectionEntities ==
    {Entity("IfcBeam", Extruded(p, AxisZ, Fin(8)), 0, TRUE, <<>>) : p \in {Circle, IShape, LShape}}
    \cup {Entity("IfcColumn", Brep, 0, TRUE, <<>>),
          Entity("IfcMember", None, 0, TRUE, <<>>),
          Entity("IfcBeam", Extruded(Rectangle, AxisZ, Fin(8)), 0, FALSE, <<>>),
          Entity("IfcSlab", Brep, 0, TRUE, <<>>)}

\* rectangular sections of several widths and heights, in decimetres
Widths == {1, 2, 3}
Heights == {2, 3, 5}

RectangleEntities ==
    {Entity("IfcBeam",
            Extruded([is_a |-> "IfcRectangleProfileDef", XDim |-> b, YDim |-> h],
                     AxisZ, Fin(8)),
            0, TRUE, <<>>) : b \in Widths, h \in Heights}

\* what the passes of the parser tell apart: members with an axis line, with and
\* without material; a failed shape; a subtype of IfcBeam; a member without
\* representation; a surface member
ManagerEntities ==
    {Entity("IfcBeam", Extruded(Rectangle, AxisZ, Fin(8)), 0, TRUE, a) :
        a \in {<<>>, << Associates(Material("steel")) >>}}
    \cup {Entity("IfcBeam", Extruded(Rectangle, AxisZ, Fin(8)), 0, FALSE,
                 << Associates(Material("steel")) >>),
          Entity("IfcBeamStandardCase", Extruded(Rectangle, AxisZ, Fin(8)), 0, TRUE, <<>>),
          Entity("IfcMember", None, 0, TRUE, <<>>),
          Entity("IfcSlab", Brep, 0, TRUE, << Associates(Material("concrete")) >>)}

\* two members that meet at the origin, a failed shape and a surface member
ResultsEntities ==
    PlainBeams
    \cup {Entity("IfcBeam", Extruded(Rectangle, AxisZ, Fin(8)), 0, FALSE, <<>>),
          Entity("IfcSlab", Brep, 0, TRUE, <<>>)}

\* the face index lists the kernel may hand over for a mesh of three vertices: all
\* indices valid, one index past the last vertex, a valid and an invalid triangle,
\* a negative index
MeshFaces == {<<0, 1, 2>>, <<0, 1, 3>>, <<0, 1, 2, 2, 1, 3>>, <<0, 1, -1>>}

\* surface members with these meshes, a member with an axis line, a failed shape
MeshEntities ==
    {[Entity("IfcSlab", Brep, 0, TRUE, <<>>) EXCEPT !.faces = f] : f \in MeshFaces}
    \cup {Entity("IfcBeam", Extruded(Rectangle, AxisZ, Fin(8)), 0, TRUE, <<>>),
          Entity("IfcSlab", Brep, 0, FALSE, <<>>)}

\* the files of up to MaxElems entities drawn from a set; GlobalIds are 1, 2, ...
FilesOf(entities) ==
    UNION {{[i \in 1..n |-> [GlobalId |-> i] @@ f[i]] : f \in [1..n -> entities]} :
              n \in 0..MaxElems}

\* the property sets of the file's IfcMaterial objects, by material name
Catalog ==
    [steel |-> [k |-> <<"Pset_MaterialCommon.MassDensity">>, v |-> <<Density>>]]

\* a parser built without a path, or with the path of one of the files
InitWith(entities) ==
    /\ \/ /\ ifc_file_path = ""
          /\ disk = [entities |-> <<>>, material_psets |-> Catalog]
       \/ /\ ifc_file_path = "model.ifc"
          /\ \E f \in FilesOf(entities) : disk = [entities |-> f, material_psets |-> Catalog]
    /\ ifc_model = None
    /\ structural_elements = EmptyDict
    /\ nodes = EmptyDict
    /\ elements = EmptyDict
    /\ default_section = None
    /\ materials_defined = FALSE
    /\ model_created = FALSE
    /\ ops = WipedOps
    /\ ret = Returned("__init__", None)
    /\ last_load = "not called"
    /\ last_create = "not called"
    /\ manager_elements = EmptyDict
    /\ analysis_results = None
    /\ converter = None

Init == InitWith(GeometryEntities)

InitSection == InitWith(PlainBeams \cup SectionEntities)

InitNonFinite == InitWith(PlainBeams \cup NonFiniteEntities)

InitMaterial == InitWith(MaterialEntities)

InitRectangle == InitWith(RectangleEntities)

InitManager == InitWith(ManagerEntities)

InitResults == InitWith(ResultsEntities)

InitMesh == InitWith(MeshEntities)

Next ==
    \/ LoadIfcFile
    \/ ExtractStructuralElements
    \/ ExtractGeometry
    \/ CreateModel

\* the parser driven directly and through IFCManager
NextManager ==
    \/ LoadIfcFile
    \/ ExtractStructuralElements
    \/ ExtractGeometry
    \/ CalculateElementProperties
    \/ IFCManagerExtractStructuralElements
    \/ ValidateModel
    \/ ExportElementsSummary
    \/ CountPropertiesByMaterial

\* the parser, the converter, the analysis and the presentation of its results
NextResults ==
    \/ LoadIfcFile
    \/ ExtractStructuralElements
    \/ ExtractGeometry
    \/ CreateModel
    \/ RunAnalysis
    \/ VisualizeResults

\* the parser and the two presentations of its elements
NextMesh ==
    \/ LoadIfcFile
    \/ ExtractStructuralElements
    \/ ExtractGeometry
    \/ ManagerVisualizeIfcModel
    \/ LinkerVisualizeIfcModel

\* the linker driven through IFCtoOpenSeesConverter only
NextFacade ==
    \/ IFCtoOpenSeesConverterLoadIfc
    \/ IFCtoOpenSeesConverterExtractStructuralElements
    \/ IFCtoOpenSeesConverterCreateOpenseesModel
    \/ IFCtoOpenSeesConverterRunAnalysis
    \/ VisualizeResults

Spec == Init /\ [][Next]_vars

SpecSection == InitSection /\ [][Next]_vars

SpecNonFinite == InitNonFinite /\ [][Next]_vars

SpecMaterial == InitMaterial /\ [][Next]_vars

SpecRectangle == InitRectangle /\ [][Next]_vars

SpecManager == InitManager /\ [][NextManager]_vars

SpecResults == InitResults /\ [][NextResults]_vars

SpecMesh == InitMesh /\ [][NextMesh]_vars

SpecFacade == InitResults /\ [][NextFacade]_vars


-----------------------------------------------------------------------------
(* What the claims speak of *)

\* the latest call was create_model and it returned True
Created == ret = Returned("create_model", TRUE)

\* two coordinates lie within the tolerance of each other (every axis differs by less)
Within(p, q) == \A a \in 1..3 : IsFin(p[a]) /\ IsFin(q[a]) /\ Abs(p[a].v - q[a].v) < Eps

\* two coordinates lie farther apart than the tolerance (on some axis)
Farther(p, q) == \E a \in 1..3 : IsFin(p[a]) /\ IsFin(q[a]) /\ Abs(p[a].v - q[a].v) > Eps

\* the structural elements with Centerline geometry, in the dict's order
Centerlines ==
    SelectSeq(structural_elements.v,
              LAMBDA e : e.geometry # None /\ e.geometry.type = "line")

\* those of them that are Beam, Column or Member
LinearCenterlines == SelectSeq(Centerlines, LAMBDA e : e.type \in LinearTypes)

\* the endpoints of the registered elements, each with the node id the element holds
\* for it (the i-th registered element is the i-th linear centerline member)
RegisteredEnds ==
    UNION {{[coords |-> LinearCenterlines[i].geometry.start, node |-> elements.v[i].nodes[1]],
            [coords |-> LinearCenterlines[i].geometry.end, node |-> elements.v[i].nodes[2]]} :
              i \in 1..DictLen(elements)}

(* C1: after node creation over elements that all have centerline geometry, no two
   distinct node ids have coordinates within the tolerance of each other. *)
C1_NoTwoNodesWithinTolerance ==
    (/\ ret.op = "create_model"
     /\ DictLen(structural_elements) > 0
     /\ Len(Centerlines) = DictLen(structural_elements)) =>
        \A i, j \in 1..DictLen(nodes) : i # j => ~Within(nodes.v[i], nodes.v[j])

\* the two elements share exactly one endpoint, within tolerance, and nothing else
ShareOneEndpoint(e1, e2) ==
    LET ends1 == <<e1.geometry.start, e1.geometry.end>>
        ends2 == <<e2.geometry.start, e2.geometry.end>>
        shared == {p \in (1..2) \X (1..2) : Within(ends1[p[1]], ends2[p[2]])}
    IN  /\ Cardinality(shared) = 1
        /\ ~Within(ends1[1], ends1[2])
        /\ ~Within(ends2[1], ends2[2])

(* C2: two linear members sharing one endpoint (within tolerance) are assembled into
   exactly 3 nodes, and both registered elements hold one common node id. *)
C2_SharedEndpointGivesThreeNodes ==
    (/\ Created
     /\ Len(LinearCenterlines) = 2
     /\ DictLen(structural_elements) = 2
     /\ ShareOneEndpoint(LinearCenterlines[1], LinearCenterlines[2]))
    => /\ DictLen(nodes) = 3
       /\ DictLen(elements) = 2
       /\ \E n \in Seq2Set(elements.v[1].nodes) : n \in Seq2Set(elements.v[2].nodes)

\* two coordinates differ by twice the tolerance or more on some axis
FarApart(p, q) == \E a \in 1..3 : IsFin(p[a]) /\ IsFin(q[a]) /\ Abs(p[a].v - q[a].v) >= 2 * Eps

\* the node set holds the two coordinates under two distinct ids
HeldApart(p, q) ==
    \E i, j \in 1..DictLen(nodes) :
        /\ nodes.k[i] # nodes.k[j]
        /\ nodes.v[i] = p
        /\ nodes.v[j] = q

(* C3, as stated: endpoints farther apart than the tolerance are assigned distinct
   node ids, the registered elements reference them by distinct node ids, and no
   endpoint is resolved to a node more than the tolerance away from it. *)
C3_FartherEndsReferencedDistinctly ==
    Created =>
        /\ DictLen(elements) = Len(LinearCenterlines)
        /\ \A x, y \in RegisteredEnds :
              Farther(x.coords, y.coords) =>
                  /\ HeldApart(x.coords, y.coords)
                  /\ x.node # y.node
        /\ \A x \in RegisteredEnds : ~Farther(DictGet(nodes, x.node), x.coords)

(* C3, amended: endpoints farther apart than the tolerance are held in the node set
   under distinct node ids; no endpoint is resolved to a node that differs from it by
   the tolerance or more on any axis; and registered elements reference two endpoints
   by distinct node ids whenever the endpoints differ by twice the tolerance or more
   on some axis. *)
C3_FarApartEndsReferencedDistinctly ==
    Created =>
        /\ DictLen(elements) = Len(LinearCenterlines)
        /\ \A x, y \in RegisteredEnds :
              /\ Farther(x.coords, y.coords) => HeldApart(x.coords, y.coords)
              /\ FarApart(x.coords, y.coords) => x.node # y.node
        /\ \A x \in RegisteredEnds : Within(DictGet(nodes, x.node), x.coords)

\* an endpoint was resolved to a nearby node that is not its own, and two endpoints
\* twice the tolerance apart are referenced by different ids
C3_Witness ==
    /\ Created
    /\ \E x \in RegisteredEnds : DictGet(nodes, x.node) # x.coords
    /\ \E x, y \in RegisteredEnds : FarApart(x.coords, y.coords) /\ x.node # y.node

(* C4: when create_model returns True, no Beam/Column/Member centerline was left
   out of the registered elements because an endpoint resolved to no node. *)
C4_NoElementSilentlySkipped ==
    Created => DictLen(elements) = Len(LinearCenterlines)

\* the ids of the nodes whose z is less than the tolerance above every node's z
LowestNodes ==
    {nodes.k[i] : i \in {n \in 1..DictLen(nodes) :
        \A j \in 1..DictLen(nodes) : nodes.v[n][3].v - nodes.v[j][3].v < Eps}}

(* C5: after create_model has applied the boundary conditions, the fully restrained
   nodes are exactly the nodes whose z lies within the tolerance of the lowest z. *)
C5_FixedNodesAreTheLowest ==
    Created => ops.fixed = LowestNodes

\* nodes at z = 0, half the tolerance above it and twice the tolerance above it:
\* exactly the first two are fixed
C5_Witness ==
    /\ Created
    /\ {nodes.v[i][3].v : i \in 1..DictLen(nodes)} = {0, 2, 8}
    /\ DictLen(nodes) = 3
    /\ Cardinality(ops.fixed) = 2

(* C6: every registered element carries the load -(A * 7850 * 9.81) for the area A
   of the section it was created with. *)
C6_LoadUsesElementsOwnArea ==
    Created =>
        \A i \in 1..DictLen(ops.elements) :
            /\ DictHas(ops.loads, ops.elements.k[i])
            /\ DictGet(ops.loads, ops.elements.k[i]) = UniformLoad(ops.elements.v[i].section.A)

\* a linear centerline member whose profile matched none of the known kinds
UnknownProfile(e) ==
    /\ e.type \in LinearTypes
    /\ e.profile # None
    /\ e.profile.type \notin {"IfcRectangleProfileDef", "IfcCircleProfileDef",
                              "IfcIShapeProfileDef"}

(* C7: with geometry on every element and a linear member of unknown profile kind
   among them, create_model returns True and that member is registered with the
   default section. *)
C7_UnknownProfileGetsDefaultSection ==
    (/\ ret.op = "create_model"
     /\ Len(Centerlines) = DictLen(structural_elements)
     /\ \E i \in 1..Len(LinearCenterlines) : UnknownProfile(LinearCenterlines[i]))
    => /\ ret.value = TRUE
       /\ DictLen(ops.elements) = Len(LinearCenterlines)
       /\ \A i \in 1..Len(LinearCenterlines) :
             UnknownProfile(LinearCenterlines[i]) => ops.elements.v[i].section = DefaultSection

(* C8: when one element was left without geometry and the others have centerline
   geometry of known profile kinds, create_model returns True and registers every
   remaining linear member. *)
C8_MissingGeometryDoesNotAbort ==
    (/\ ret.op = "create_model"
     /\ DictLen(structural_elements) = 2
     /\ Len(LinearCenterlines) = 1
     /\ ~UnknownProfile(LinearCenterlines[1])
     /\ \E i \in 1..2 : structural_elements.v[i].geometry = None)
    => /\ ret.value = TRUE
       /\ DictLen(elements) = 1
       /\ DictLen(nodes) = 2

\* the entities of the file that extract_structural_elements enumerates
Enumerated ==
    {e \in Seq2Set(disk.entities) : \E t \in Seq2Set(StructuralTypes) : IsA(e.is_a, t)}

\* a material association of the entity that cannot be traversed: it relates no
\* material, or one of its layers has none
Malformed(e) ==
    \E i \in 1..Len(e.HasAssociations) :
        LET rel == e.HasAssociations[i] IN
        /\ rel.is_a = "IfcRelAssociatesMaterial"
        /\ \/ rel.RelatingMaterial = None
           \/ /\ rel.RelatingMaterial.is_a = "IfcMaterialLayerSetUsage"
              /\ \E n \in 1..Len(rel.RelatingMaterial.ForLayerSet.MaterialLayers) :
                    rel.RelatingMaterial.ForLayerSet.MaterialLayers[n].Material = None

\* the entity has a material association, and all of them can be traversed
Associated(e) ==
    /\ ~Malformed(e)
    /\ \E i \in 1..Len(e.HasAssociations) : e.HasAssociations[i].is_a = "IfcRelAssociatesMaterial"

(* C9: after extract_structural_elements on a loaded model the result holds one
   record for every enumerated entity, whether or not its material could be
   resolved; the record of an entity with a malformed association has material
   None, and the record of every entity with well-formed associations has its
   materials. *)
C9_MaterialFailureDropsNoElement ==
    (ret.op = "extract_structural_elements" /\ ifc_model # None) =>
        /\ Seq2Set(Value(ret).k) = {e.GlobalId : e \in Enumerated}
        /\ DictLen(Value(ret)) = Cardinality(Enumerated)
        /\ \A e \in Enumerated :
              LET record == DictGet(Value(ret), e.GlobalId) IN
              /\ record.id = e.GlobalId
              /\ Malformed(e) => record.material = None
              /\ Associated(e) => record.material # None

\* a batch of two whose first entity's material lookup failed and whose second
\* entity has its material
C9_Witness ==
    /\ ret.op = "extract_structural_elements"
    /\ ifc_model # None
    /\ Len(disk.entities) = 2
    /\ Malformed(disk.entities[1])
    /\ Associated(disk.entities[2])
    /\ DictLen(structural_elements) = 2
    /\ structural_elements.v[1].material = None
    /\ structural_elements.v[2].material # None

(* C10: a load_ifc_file call that returns False on a parser with no model leaves
   ifc_model unset, and while ifc_model is unset every extract_structural_elements
   and extract_geometry call returns an empty dict and adds no structural element. *)
C10_FailedLoadHaltsExtraction ==
    [][ /\ (ret'.op = "load_ifc_file" /\ ret'.value = FALSE /\ ifc_model = None)
            => ifc_model' = None
        /\ (ifc_model = None /\ ret'.op \in {"extract_structural_elements", "extract_geometry"})
            => (ret'.value = EmptyDict /\ structural_elements' = structural_elements)
        /\ ifc_model = None => structural_elements = EmptyDict ]_vars

\* the file could not be loaded and the extraction that followed returned nothing
C10_Witness ==
    /\ last_load = "False"
    /\ ifc_file_path # ""
    /\ Len(disk.entities) > 0
    /\ ifc_model = None
    /\ ret = Returned("extract_geometry", EmptyDict)
    /\ structural_elements = EmptyDict

\* the field is absent from the record or holds None
Unset(record, field) == field \notin DOMAIN record \/ record[field] = None

\* the issues of the latest validation, as a set
Flagged == Seq2Set(ret.value)

(* C11: validate_model flags every element without geometry (a geometry of None
   included), every element without material and every element whose volume is zero
   or was not computed, and leaves the elements as they are. *)
C11_ValidateFlagsEveryGap ==
    (ret.op = "validate_model" /\ DictLen(ManagerElements) > 0) =>
        \A i \in 1..DictLen(ManagerElements) :
            LET elem_id == ManagerElements.k[i]
                e == ManagerElements.v[i]
            IN  /\ Unset(e, "geometry")
                      => [id |-> elem_id, issue |-> "has no geometry"] \in Flagged
                /\ Unset(e, "material")
                      => [id |-> elem_id, issue |-> "has no material"] \in Flagged
                /\ (Unset(e, "volume") \/ e.volume = Fin(0))
                      => [id |-> elem_id, issue |-> "has zero volume"] \in Flagged

\* the columns of the summary
Columns == {"ID", "Name", "Type", "Volume", "Area", "Length", "Material"}

(* C12: export_elements_summary gives one row per structural element, each with the
   columns ID, Name, Type, Volume, Area, Length and Material, and the Volume, Area and
   Length of an element for which they were not computed are zero, never None. *)
C12_SummaryRowsAreNumeric ==
    (ret.op = "export_elements_summary" /\ DictLen(ManagerElements) > 0) =>
        /\ Len(ret.value.rows) = DictLen(ManagerElements)
        /\ \A i \in 1..DictLen(ManagerElements) :
              LET row == ret.value.rows[i]
                  e == ManagerElements.v[i]
              IN  /\ DOMAIN row = Columns
                  /\ row.ID = ManagerElements.k[i]
                  /\ Unset(e, "volume") => row.Volume = Fin(0)
                  /\ Unset(e, "area") => row.Area = Fin(0)
                  /\ Unset(e, "length") => row.Length = Fin(0)

\* the processing orders of n elements
Orders(n) == {f \in [1..n -> 1..n] : \A i, j \in 1..n : f[i] = f[j] => i = j}

\* the same elements, taken in the order f
Reordered(selems, f) ==
    [k |-> [i \in 1..DictLen(selems) |-> selems.k[f[i]]],
     v |-> [i \in 1..DictLen(selems) |-> selems.v[f[i]]]]

\* the nodes and elements a new converter assembles from the elements
Assembled(selems) ==
    LET n == CreateNodes(selems, EmptyDict, WipedOps)
        e == CreateElements(selems, n.nodes, EmptyDict, DefaultSection, n.ops)
    IN  [nodes |-> n.nodes, elements |-> e.elements]

\* there is a one-to-one renaming of the node ids of g1 into those of g2 under which
\* the element made from each structural element joins the corresponding nodes
\* (the j-th element of g2 is made from the f[j]-th element of g1)
SameTopology(g1, g2, f) ==
    /\ DictLen(g1.nodes) = DictLen(g2.nodes)
    /\ DictLen(g1.elements) = DictLen(g2.elements)
    /\ \E h \in [Seq2Set(g1.nodes.k) -> Seq2Set(g2.nodes.k)] :
          /\ \A a, b \in Seq2Set(g1.nodes.k) : h[a] = h[b] => a = b
          /\ \A j \in 1..DictLen(g2.elements) :
                Seq2Set(g2.elements.v[j].nodes)
                    = {h[a] : a \in Seq2Set(g1.elements.v[f[j]].nodes)}

(* C13: assembling the same linear centerline members in any other order gives the
   same graph up to a renaming of the node ids. *)
C13_AssemblyOrderInsensitive ==
    (Created /\ Len(LinearCenterlines) = DictLen(structural_elements)) =>
        \A f \in Orders(DictLen(structural_elements)) :
            SameTopology(Assembled(structural_elements),
                         Assembled(Reordered(structural_elements, f)), f)

\* b to the power 3
Cube(b) == b * b * b

(* C14: an element made from a rectangular profile of width b and height h is given
   the section A = b*h, Iz = b*h^3/12, Iy = h*b^3/12 and J = (b*h^3 + h*b^3)/12
   (the moments are held as twelfths, so 12*Iz = b*h^3, 12*Iy = h*b^3, J = Iz + Iy). *)
C14_RectangularSection ==
    Created =>
        \A i \in 1..DictLen(ops.elements) :
            LET entity == ByGuid(disk, LinearCenterlines[i].id)
                b == entity.Representation.Representations[1].Items[1].SweptArea.XDim
                h == entity.Representation.Representations[1].Items[1].SweptArea.YDim
                section == ops.elements.v[i].section
            IN  /\ section.A = Num(b * h)
                /\ section.Iz = Num(b * Cube(h))
                /\ section.Iy = Num(h * Cube(b))
                /\ section.J.q = section.Iz.q + section.Iy.q
                /\ section.J.pi = 0

\* the profile of width 0.3 and height 0.5: A = 0.15 (15 dm^2), Iz = 0.003125
\* (375/12 dm^4), Iy = 0.001125 (135/12 dm^4)
C14_Witness ==
    /\ Created
    /\ \E i \in 1..DictLen(ops.elements) :
          /\ LinearCenterlines[i].profile.width = 3
          /\ LinearCenterlines[i].profile.height = 5
          /\ ops.elements.v[i].section.A = Num(15)
          /\ ops.elements.v[i].section.Iz = Num(375)
          /\ ops.elements.v[i].section.Iy = Num(135)

(* C15: when the results of an analysis are presented, every structural element that
   was registered as a line element is drawn displaced, between the displaced
   positions of its own start and end nodes. *)
C15_ResultsDrawnForEveryElement ==
    (/\ ret.op = "visualize_results"
     /\ "displaced" \in DOMAIN ret.value
     /\ DictLen(elements) > 0
     /\ DictLen(elements) = Len(LinearCenterlines))
    => \A i \in 1..DictLen(elements) :
          \E line \in Seq2Set(ret.value.displaced) :
              /\ line.id = LinearCenterlines[i].id
              /\ line.nodes = elements.v[i].nodes

\* the latest call ended in an exception
HasRaised == "raised" \in DOMAIN ret.value

(* C16: when the geometry pass left one element without geometry, the property
   calculation that follows, alone or inside IFCManager.extract_structural_elements,
   ends without raising and has gone through every other element: each element with
   line geometry has the volume and area keys the pass sets. *)
C16_CalculationIsolatesFailedGeometry ==
    (/\ ret.op \in {"calculate_element_properties", "IFCManager.extract_structural_elements"}
     /\ ifc_file_path # ""
     /\ \E i \in 1..DictLen(structural_elements) : structural_elements.v[i].geometry = None)
    => /\ ~HasRaised
       /\ \A i \in 1..Len(Centerlines) :
             {"volume", "area"} \subseteq DOMAIN Centerlines[i]

(* C17: after extract_geometry, an element whose shape the kernel produced has line
   geometry with its mesh kept if and only if its entity is enumerated as Beam,
   Column or Member and it has a profile; every other such element has mesh
   geometry. *)
C17_CenterlineIffLinearWithProfile ==
    (ret.op = "extract_geometry" /\ ifc_model # None) =>
        \A i \in 1..DictLen(structural_elements) :
            LET e == structural_elements.v[i]
                entity == ByGuid(disk, e.id)
                linear == \E t \in LinearTypes : IsA(entity.is_a, t)
            IN  entity.shape_ok =>
                   /\ e.geometry # None
                   /\ {"vertices", "triangles"} \subseteq DOMAIN e.geometry
                   /\ e.geometry.type = IF linear /\ e.profile # None THEN "line" ELSE "mesh"

\* the fields the passes populate
PopulatedFields == {"geometry", "material", "profile", "volume", "area"}

(* C18: in every step, an element of structural_elements stays in it, and each of its
   fields geometry, material, profile, volume and area that was populated before the
   step is populated after it. *)
C18_FieldsNeverUnset ==
    [][ \A i \in 1..DictLen(structural_elements) :
           /\ DictHas(structural_elements', structural_elements.k[i])
           /\ \A field \in PopulatedFields :
                 ~Unset(structural_elements.v[i], field)
                    => ~Unset(DictGet(structural_elements', structural_elements.k[i]), field)
      ]_vars

(* C19: a step of create_model or run_analysis, successful or not, leaves the
   structural_elements map and every record in it as they were. *)
C19_AssemblerLeavesElementsAlone ==
    [][ ret'.op \in {"create_model", "run_analysis"}
           => structural_elements' = structural_elements ]_vars

\* an analysis has run on a model created from two elements
C19_Witness ==
    /\ ret.op = "run_analysis"
    /\ model_created
    /\ analysis_results # None
    /\ DictLen(structural_elements) = 2
    /\ DictLen(elements) > 0

(* C20: after calculate_element_properties has returned, every element with mesh
   geometry has a volume and an area, both non-negative numbers. *)
C20_MeshVolumeAndAreaPopulated ==
    (ret.op = "calculate_element_properties" /\ ~HasRaised) =>
        \A i \in 1..DictLen(structural_elements) :
            LET e == structural_elements.v[i] IN
            (e.geometry # None /\ e.geometry.type = "mesh") =>
                /\ ~Unset(e, "volume")
                /\ ~Unset(e, "area")
                /\ IsFin(e.volume) /\ e.volume.v >= 0
                /\ IsFin(e.area) /\ e.area.v >= 0

\* the area the profile's shape gives: width x height for a rectangle, 0 for a shape
\* that is not known
ShapeArea(profile) ==
    IF "shape" \in DOMAIN profile /\ profile.shape = "rectangular"
    THEN profile.width * profile.height
    ELSE 0

\* the distance between the two ends of an axis line
LineLength(geom) ==
    Sqrt((geom.end[1].v - geom.start[1].v) * (geom.end[1].v - geom.start[1].v)
         + (geom.end[2].v - geom.start[2].v) * (geom.end[2].v - geom.start[2].v)
         + (geom.end[3].v - geom.start[3].v) * (geom.end[3].v - geom.start[3].v))

(* C21: after calculate_element_properties has returned, every element with line
   geometry has an area that is the number its profile's shape gives (width x height
   for a rectangle, 0 for an unknown shape) and a volume that is that area times the
   distance between start and end; neither is None. *)
C21_LineAreaAndVolumeComputed ==
    (ret.op = "calculate_element_properties" /\ ~HasRaised) =>
        \A i \in 1..Len(Centerlines) :
            LET e == Centerlines[i] IN
            /\ ~Unset(e, "area")
            /\ ~Unset(e, "volume")
            /\ e.area = Fin(ShapeArea(e.profile))
            /\ e.volume = Fin(ShapeArea(e.profile) * LineLength(e.geometry))

\* the layers of the entity's layered material usages, in the order they are read
LayersOf(e) ==
    LET usages == SelectSeq(e.HasAssociations,
                            LAMBDA rel : /\ rel.is_a = "IfcRelAssociatesMaterial"
                                         /\ rel.RelatingMaterial # None
                                         /\ rel.RelatingMaterial.is_a = "IfcMaterialLayerSetUsage")
    IN  IF usages = <<>> THEN <<>>
        ELSE usages[1].RelatingMaterial.ForLayerSet.MaterialLayers

(* C22: after extract_structural_elements on a loaded model, the material mapping of
   an element tied to a well-formed layered material usage has one entry per layer,
   each of kind layer with that layer's thickness, also when two layers of the set
   use the same material name. *)
C22_OneEntryPerLayer ==
    (ret.op = "extract_structural_elements" /\ ifc_model # None) =>
        \A e \in Enumerated :
            (Associated(e) /\ LayersOf(e) # <<>>) =>
                LET material == DictGet(structural_elements, e.GlobalId).material IN
                /\ material # None
                /\ DictLen(material) = Len(LayersOf(e))
                /\ \A n \in 1..Len(LayersOf(e)) :
                      \E m \in 1..DictLen(material) :
                          /\ material.v[m].type = "layer"
                          /\ material.v[m].name = LayersOf(e)[n].Material.Name
                          /\ material.v[m].thickness = LayersOf(e)[n].LayerThickness

\* the latest call was one of the two visualize_ifc_model methods
Visualized ==
    ret.op \in {"ifc_manager.visualize_ifc_model", "ifc_openseespy_linker.visualize_ifc_model"}

(* C23: in every mesh either visualize_ifc_model hands to rendering, every triangle
   index i satisfies 0 <= i < vertex count, and a call on elements that all have
   geometry does not raise, whatever their triangles are. *)
C23_RenderedTrianglesAreValid ==
    Visualized =>
        /\ (\A i \in 1..DictLen(structural_elements) :
                structural_elements.v[i].geometry # None) => ~HasRaised
        /\ ~HasRaised =>
              \A n \in 1..Len(ret.value.traces) :
                  LET trace == ret.value.traces[n] IN
                  trace.kind = "Mesh3d" =>
                      \A t \in 1..Len(trace.triangles) : \A a \in 1..3 :
                          /\ 0 <= trace.triangles[t][a]
                          /\ trace.triangles[t][a] < Len(trace.vertices)

(* C24: after any sequence of create_model and run_analysis calls, run_analysis
   returns results only if the most recent create_model returned True, and
   model_created is true only while the most recent create_model returned True. *)
C24_ResultsOnlyAfterSuccessfulCreate ==
    /\ model_created => last_create = "True"
    /\ (ret.op = "run_analysis" /\ ret.value # None) => last_create = "True"

(* C25: a create_model call that returns False leaves the converter's nodes and
   elements maps as they were before the call. *)
C25_FailedCreateLeavesNoGraph ==
    [][ (ret'.op = "create_model" /\ ret'.value = FALSE)
           => (nodes' = nodes /\ elements' = elements) ]_vars

\* the keys of a dict
Keys(d) == Seq2Set(d.k)

(* C26: after a successful create_model the node ids are exactly 1..N and the element
   ids exactly 1..M, and both node ids of every registered element are node ids of
   the node set. *)
C26_IdsContiguousAndResolved ==
    Created =>
        /\ Keys(nodes) = 1..DictLen(nodes)
        /\ Keys(elements) = 1..DictLen(elements)
        /\ \A i \in 1..DictLen(elements) :
              /\ Len(elements.v[i].nodes) = 2
              /\ \A a \in 1..2 : elements.v[i].nodes[a] \in Keys(nodes)

\* two elements that share an endpoint: three nodes, the shared one created once
C26_Witness ==
    /\ Created
    /\ DictLen(nodes) = 3
    /\ DictLen(elements) = 2
    /\ elements.v[1].nodes[1] = elements.v[2].nodes[1]

(* C27: after a successful create_model every Beam/Column/Member with line geometry
   has both of its ends resolved to a node by the endpoint lookup, and the number of
   registered elements equals the number of these members. *)
C27_EveryCenterlineRegistered ==
    Created =>
        /\ \A i \in 1..Len(LinearCenterlines) :
              /\ FindNode(nodes, LinearCenterlines[i].geometry.start) # NoNode
              /\ FindNode(nodes, LinearCenterlines[i].geometry.end) # NoNode
        /\ DictLen(elements) = Len(LinearCenterlines)

(* C28: no element of the assembled element set connects a node to itself: its start
   node id differs from its end node id, also for a member whose start and end lie
   within the tolerance of each other. *)
C28_NoElementOnOneNode ==
    \A i \in 1..DictLen(elements) : elements.v[i].nodes[1] # elements.v[i].nodes[2]

(* C29: on the IFCtoOpenSeesConverter facade, analysis_results that are not None (the
   ones visualize_results accepts) were produced by the current converter from the
   current structural_elements: the current converter has created a model and the
   results are those of its nodes.  Re-extracting the elements or a failed analysis
   leaves no results of an earlier model. *)
C29_ResultsBelongToCurrentModel ==
    analysis_results # None =>
        /\ converter # None
        /\ model_created
        /\ Keys(analysis_results.displacements) = Keys(nodes)

\* the structural elements whose first material has this name
ElementsOf(name) ==
    SelectSeq(structural_elements.v,
              LAMBDA e : ~Unset(e, "material") /\ e.material.k[1] = name)

RECURSIVE Total(_, _)
\* the sum of a field over elements; an element without the field adds nothing
Total(elems, field) ==
    IF elems = <<>> THEN Fin(0)
    ELSE FAdd(IF Unset(Head(elems), field) THEN Fin(0) ELSE Head(elems)[field],
              Total(Tail(elems), field))

(* C30: count_properties_by_material returns, without a fault, one entry for every
   material name that is the first material of some structural element, holding the
   sums of the volume and of the area of the elements with that first material;
   elements without material add nothing. *)
C30_TotalsPerFirstMaterial ==
    ret.op = "count_properties_by_material" =>
        /\ ~HasRaised
        /\ Keys(ret.value) =
              {structural_elements.v[i].material.k[1] :
                  i \in {n \in 1..DictLen(structural_elements) :
                            ~Unset(structural_elements.v[n], "material")}}
        /\ \A m \in 1..DictLen(ret.value) :
              /\ ret.value.v[m].volume = Total(ElementsOf(ret.value.k[m]), "volume")
              /\ ret.value.v[m].area = Total(ElementsOf(ret.value.k[m]), "area")

=============================================================================
